---- MODULE Spec2Model ----
(***************************************************************************)
(* GliderNetCDF: the ncHereon dataset writer/reader (netcdf.py) driving a  *)
(* netCDF4 Dataset.  The netCDF4 container is modelled by what the calls   *)
(* the writer makes do: named dimensions (unlimited ones grow with the     *)
(* longest record written), variables keyed by their normalised group      *)
(* path, attributes, and reads that pad unwritten records with the masked  *)
(* fill value.                                                             *)
(***************************************************************************)
EXTENDS Integers, Sequences, FiniteSets, TLC

VARIABLES
    dataset,    \* self.dataset: the netCDF4 handle and the file's content
    dims,       \* self.dims: the names held by the dimension registry
    state,      \* lifecycle of the current ncHereon object
    pc,         \* position in a `with ncHereon(...) as nc:` statement
    result,     \* outcome of the last operation: what it returned or raised
    ctor,       \* arguments of the last constructor call
    firstReq,   \* per axis: the first add_parameter call that requested it
    lastAdd,    \* the last add_parameter call that returned
    doubleClose,\* close() has been applied to an already closed handle
    nops,       \* number of add_* calls made so far
    inst        \* number of ncHereon objects constructed so far

vars == <<dataset, dims, state, pc, result, ctor, firstReq, lastAdd,
          doubleClose, nops, inst>>

----------------------------------------------------------------------------
\* Bounds of the model.

\* longest time series / value series handed to add_parameter; the longest
\* depth series is one longer
MaxLen == 2
\* number of add_meta_variable / add_parameter calls in one behaviour
MaxOps == 2
\* number of ncHereon objects constructed in one behaviour
MaxInst == 2
\* number of calls of the serializer recipes in one behaviour
MaxRecipes == 3

----------------------------------------------------------------------------
\* Small helpers.

Max(a, b) == IF a >= b THEN a ELSE b

Put(f, k, v) == [x \in (DOMAIN f) \cup {k} |-> IF x = k THEN v ELSE f[x]]

\* exceptions, by the Python type (and netCDF message) that surfaces
OK == "ok"
ValueError == "ValueError"
KeyError == "KeyError"
TypeError == "TypeError"
AttributeError == "AttributeError"
OverflowError == "OverflowError"
FileNotFoundError == "FileNotFoundError"
NotValidID == "RuntimeError: NetCDF: Not a valid ID"
NameInUse == "RuntimeError: NetCDF: String match to name in use"
PermissionError == "PermissionError: NetCDF: Write to read only"
ShapeError == "ValueError: shape mismatch"

\* the value a read returns for a record that was never written
Masked == 0 - 1

----------------------------------------------------------------------------
\* The netCDF4 container, as driven by netcdf.py.

\* a variable name is a path: its "/"-separated components, so that
\* "g/x" is <<"g", "x">> and "/time" is <<"", "time">>.
\* createVariable normalises the path and skips empty components.
NormPath(varname) == SelectSeq(varname, LAMBDA s : s # "")

\* float32 keeps a 24 bit mantissa: integers above 2^24 round to even
F4(v) ==
    IF v <= 16777216 THEN v
    ELSE LET r == v % 2
             q == v - r
         IN  IF r = 0 THEN v
             ELSE IF (q \div 2) % 2 = 0 THEN q ELSE q + 2

\* conversion of one value to the variable's storage type
Cast(datatype, v) == IF datatype = "f4" THEN F4(v) ELSE v

\* Dataset(filename, mode='w'): a new, empty file
EmptyDataset ==
    [exists |-> TRUE, isopen |-> TRUE, mode |-> "w",
     attrs |-> <<>>, dimensions |-> <<>>, variables |-> <<>>]

\* no file on disk yet
NoDataset ==
    [exists |-> FALSE, isopen |-> FALSE, mode |-> "w",
     attrs |-> <<>>, dimensions |-> <<>>, variables |-> <<>>]

\* Dataset.createDimension(name, size); size 0 stands for size=None
createDimension(ds, name, size) ==
    IF ~ds.isopen THEN [err |-> NotValidID, ds |-> ds]
    ELSE IF ds.mode = "r" THEN [err |-> PermissionError, ds |-> ds]
    ELSE IF name \in DOMAIN ds.dimensions THEN [err |-> NameInUse, ds |-> ds]
    ELSE [err |-> OK,
          ds |-> [ds EXCEPT !.dimensions =
                     Put(@, name, [isunlimited |-> (size = 0), size |-> size])]]

\* Dataset.createVariable(varname, datatype, dimensions)
createVariable(ds, varname, datatype, dimensions) ==
    LET path == NormPath(varname) IN
    IF ~ds.isopen THEN [err |-> NotValidID, ds |-> ds]
    ELSE IF ds.mode = "r" THEN [err |-> PermissionError, ds |-> ds]
    ELSE IF \E i \in 1..Len(dimensions) :
                dimensions[i] \notin DOMAIN ds.dimensions
         THEN [err |-> ValueError, ds |-> ds]
    ELSE IF path \in DOMAIN ds.variables THEN [err |-> NameInUse, ds |-> ds]
    ELSE [err |-> OK,
          ds |-> [ds EXCEPT !.variables =
                     Put(@, path, [dimensions |-> dimensions,
                                   datatype |-> datatype,
                                   attrs |-> <<>>,
                                   data |-> <<>>])]]

\* var.<attr> = value
setncattr(ds, varname, attr, value) ==
    [ds EXCEPT !.variables[NormPath(varname)].attrs = Put(@, attr, value)]

\* var[:] = data for a variable on one dimension
WriteSeries(ds, varname, data) ==
    LET path == NormPath(varname)
        var == ds.variables[path]
        dn == var.dimensions[1]
        dim == ds.dimensions[dn]
        stored == [i \in 1..Len(data) |-> Cast(var.datatype, data[i])]
    IN  IF dim.isunlimited
        THEN [err |-> OK,
              ds |-> [ds EXCEPT !.variables[path].data = stored,
                                !.dimensions[dn].size = Max(@, Len(data))]]
        ELSE IF Len(data) # dim.size THEN [err |-> ShapeError, ds |-> ds]
        ELSE [err |-> OK, ds |-> [ds EXCEPT !.variables[path].data = stored]]

\* WriteGrid without the container's check of the shape of the data
WriteGridUnchecked(ds, varname, data) ==
    LET path == NormPath(varname)
        tn == ds.variables[path].dimensions[1]
    IN  [err |-> OK,
         ds |-> [ds EXCEPT !.variables[path].data = data,
                           !.dimensions[tn].size = Max(@, Len(data))]]

\* var[...] = data for a variable on (time, depth): data is a sequence of
\* rows, one per time, each holding one value per depth
WriteGrid(ds, varname, data) ==
    LET path == NormPath(varname)
        var == ds.variables[path]
        tn == var.dimensions[1]
        zn == var.dimensions[2]
        stored == [i \in 1..Len(data) |->
                     [j \in 1..Len(data[i]) |-> Cast(var.datatype, data[i][j])]]
    IN  IF \E i \in 1..Len(data) : Len(data[i]) # ds.dimensions[zn].size
        THEN [err |-> ShapeError, ds |-> ds]
        ELSE [err |-> OK,
              ds |-> [ds EXCEPT !.variables[path].data = stored,
                                !.dimensions[tn].size = Max(@, Len(data))]]

\* var[...] = value for a variable on no dimension
WriteScalar(ds, varname, value) ==
    LET path == NormPath(varname) IN
    [ds EXCEPT !.variables[path].data = <<Cast(ds.variables[path].datatype, value)>>]

\* var[...]: the variable's values over the current length of its dimensions
ReadVar(ds, path) ==
    LET var == ds.variables[path]
        rank == Len(var.dimensions)
        n1 == ds.dimensions[var.dimensions[1]].size
        n2 == ds.dimensions[var.dimensions[2]].size
    IN  IF rank = 0 THEN var.data
        ELSE IF rank = 1
        THEN [i \in 1..n1 |-> IF i <= Len(var.data) THEN var.data[i] ELSE Masked]
        ELSE [i \in 1..n1 |->
                [j \in 1..n2 |-> IF i <= Len(var.data) THEN var.data[i][j]
                                 ELSE Masked]]

\* Dataset.variables[key][...]: the root group's dictionary holds only the
\* variables of the root group, under their plain names
variables_getitem(ds, key) ==
    IF Len(key) # 1 \/ key \notin DOMAIN ds.variables
    THEN [err |-> KeyError, val |-> <<>>]
    ELSE IF ~ds.isopen THEN [err |-> NotValidID, val |-> <<>>]
    ELSE [err |-> OK, val |-> ReadVar(ds, key)]

----------------------------------------------------------------------------
\* ncHereon: the operations of netcdf.py on an object h = [dataset, dims].
\* Each returns the object as the call leaves it, also when it raises.

\* Python's None
None == "None"

\* Python's `a or b` on an optional string
PyOr(a, b) == IF a = None \/ a = "" THEN b ELSE a

Raise(e, ds, dm) == [err |-> e, dataset |-> ds, dims |-> dm]

Return(ds, dm) == [err |-> OK, dataset |-> ds, dims |-> dm]

\* os.path.split(name), the last element replaced by 'time', "/".join
_get_time_name(name) ==
    LET head == IF Len(name) = 1 THEN <<"">> ELSE SubSeq(name, 1, Len(name) - 1)
    IN  head \o <<"time">>

_check_for_time_dimension(h, t, name, time_dimension) ==
    LET tstr == _get_time_name(name) IN
    IF time_dimension \in h.dims THEN Return(h.dataset, h.dims)
    ELSE
      LET d == createDimension(h.dataset, time_dimension, 0) IN
      IF d.err # OK THEN Raise(d.err, h.dataset, h.dims)
      ELSE
        LET dims1 == h.dims \cup {time_dimension}
            c == createVariable(d.ds, tstr, "f8", <<time_dimension>>)
        IN
        IF c.err # OK THEN Raise(c.err, d.ds, dims1)
        ELSE
          LET a1 == setncattr(c.ds, tstr, "units", "seconds since 1-1 1970 00:00:00")
              a2 == setncattr(a1, tstr, "standard_name", "time")
              w == WriteSeries(a2, tstr, t)
          IN  [err |-> w.err, dataset |-> w.ds, dims |-> dims1]

_check_for_z_dimension(h, z) ==
    IF "Z" \in h.dims THEN Return(h.dataset, h.dims)
    ELSE
      LET d == createDimension(h.dataset, "Z", Len(z)) IN
      IF d.err # OK THEN Raise(d.err, h.dataset, h.dims)
      ELSE
        LET dims1 == h.dims \cup {"Z"}
            c == createVariable(d.ds, <<"z">>, "f8", <<"Z">>)
        IN
        IF c.err # OK THEN Raise(c.err, d.ds, dims1)
        ELSE
          LET a1 == setncattr(c.ds, <<"z">>, "units", "m")
              a2 == setncattr(a1, <<"z">>, "standard_name", "depth")
              a3 == setncattr(a2, <<"z">>, "long_name",
                              "water depth relative to sea surface")
              a4 == setncattr(a3, <<"z">>, "positive", "down")
              w == WriteSeries(a4, <<"z">>, z)
          IN  [err |-> w.err, dataset |-> w.ds, dims |-> dims1]

\* the tail of add_parameter: var.standard_name when one is given
SetStandardName(r, name, standard_name) ==
    IF r.err # OK \/ standard_name = None THEN r
    ELSE [r EXCEPT !.dataset = setncattr(@, name, "standard_name", standard_name)]

\* add_parameter with (time, values)
AddSeries(h, name, unit, v, time_dimension) ==
    LET k == _check_for_time_dimension(h, v[1], name, time_dimension) IN
    IF k.err # OK THEN k
    ELSE
      LET c == createVariable(k.dataset, name, "f8", <<time_dimension>>) IN
      IF c.err # OK THEN Raise(c.err, k.dataset, k.dims)
      ELSE
        LET w == WriteSeries(setncattr(c.ds, name, "units", unit), name, v[2])
        IN  [err |-> w.err, dataset |-> w.ds, dims |-> k.dims]

\* add_parameter with (time, z, values)
AddProfile(h, name, unit, v, time_dimension) ==
    LET k == _check_for_time_dimension(h, v[1], name, time_dimension) IN
    IF k.err # OK THEN k
    ELSE
      LET kz == _check_for_z_dimension([dataset |-> k.dataset, dims |-> k.dims], v[2])
      IN
      IF kz.err # OK THEN kz
      ELSE
        LET c == createVariable(kz.dataset, name, "f8", <<time_dimension, "Z">>) IN
        IF c.err # OK THEN Raise(c.err, kz.dataset, kz.dims)
        ELSE
          LET u == setncattr(c.ds, name, "units", unit)
              w == WriteGrid(u, name, v[3])
          IN  [err |-> w.err,
               dataset |-> IF w.err = OK THEN w.ds ELSE u,
               dims |-> kz.dims]

\* add_parameter resolving the time axis before it looks at the arity
add_parameter_eager(h, name, unit, v, standard_name, time_dimension) ==
    LET td == PyOr(time_dimension, "T")
        d == createDimension(h.dataset, td, 0)
    IN  IF Len(v) = 2
        THEN SetStandardName(AddSeries(h, name, unit, v, td), name, standard_name)
        ELSE IF Len(v) = 3
        THEN SetStandardName(AddProfile(h, name, unit, v, td), name, standard_name)
        ELSE Raise(ValueError, d.ds, IF d.err = OK THEN h.dims \cup {td} ELSE h.dims)

add_parameter(h, name, unit, v, standard_name, time_dimension) ==
    LET td == PyOr(time_dimension, "T") IN
    IF Len(v) = 2
    THEN SetStandardName(AddSeries(h, name, unit, v, td), name, standard_name)
    ELSE IF Len(v) = 3
    THEN SetStandardName(AddProfile(h, name, unit, v, td), name, standard_name)
    ELSE Raise(ValueError, h.dataset, h.dims)

add_meta_variable(h, name, unit, value, dtype) ==
    LET c == createVariable(h.dataset, name, dtype, <<>>) IN
    IF c.err # OK THEN Raise(c.err, h.dataset, h.dims)
    ELSE Return(WriteScalar(setncattr(c.ds, name, "unit", unit), name, value),
                h.dims)

\* the list get builds, element by element, until a lookup raises
RECURSIVE ReadAll(_, _)
ReadAll(ds, keys) ==
    IF keys = <<>> THEN [err |-> OK, val |-> <<>>]
    ELSE LET r == variables_getitem(ds, Head(keys)) IN
         IF r.err # OK THEN [err |-> r.err, val |-> <<>>]
         ELSE LET rest == ReadAll(ds, Tail(keys)) IN
              IF rest.err # OK THEN rest
              ELSE [err |-> OK, val |-> <<r.val>> \o rest.val]

\* get listing the parameter ahead of the time variable
get_parameter_first(h, parameter, p) ==
    ReadAll(h.dataset, <<parameter, <<"time">>>> \o p)

get(h, parameter, p) == ReadAll(h.dataset, <<<<"time">>, parameter>> \o p)

\* a close that returns and leaves the handle as it is
close_noop(ds) == [err |-> OK, ds |-> ds]

\* Dataset.close()
close(ds) ==
    IF ~ds.isopen THEN [err |-> NotValidID, ds |-> ds]
    ELSE [err |-> OK, ds |-> [ds EXCEPT !.isopen = FALSE]]

----------------------------------------------------------------------------
\* Attribute coercion and the constructor.

\* A metadata value is [type, hi, lo, text]: a Python bool or int is the
\* integer hi * 2^16 + lo (0 <= lo < 2^16), a float or str is its text.
Two16 == 65536

PyBool(b) == [type |-> "bool", hi |-> 0, lo |-> b, text |-> ""]
PyInt(hi, lo) == [type |-> "int", hi |-> hi, lo |-> lo, text |-> ""]
PyFloat(text) == [type |-> "float", hi |-> 0, lo |-> 0, text |-> text]
PyStr(text) == [type |-> "str", hi |-> 0, lo |-> 0, text |-> text]
PyDict == [type |-> "dict", hi |-> 0, lo |-> 0, text |-> "{}"]

\* the attribute types netCDF4 stores these as
NcInt(hi, lo) == [nctype |-> "NC_INT", hi |-> hi, lo |-> lo, text |-> ""]
NcDouble(text) == [nctype |-> "NC_DOUBLE", hi |-> 0, lo |-> 0, text |-> text]
NcString(text) == [nctype |-> "NC_STRING", hi |-> 0, lo |-> 0, text |-> text]

\* The numpy the program runs on decides two calls: np.float is an alias of
\* float before 1.24 and an AttributeError from 1.24 on; np.int32 of an
\* integer outside 32 bits wraps before 2.0 and is an OverflowError from 2.0.
Builds == {"numpy<1.24", "numpy<2.0", "numpy>=2.0"}

InInt32(v) == v.hi >= 0 - (Two16 \div 2) /\ v.hi < Two16 \div 2

\* np.int32(v)
np_int32(build, v) ==
    IF InInt32(v) THEN [err |-> OK, attr |-> NcInt(v.hi, v.lo)]
    ELSE IF build = "numpy>=2.0" THEN [err |-> OverflowError, attr |-> NcInt(0, 0)]
    ELSE [err |-> OK,
          attr |-> NcInt(((v.hi + Two16 \div 2) % Two16) - Two16 \div 2, v.lo)]

\* np.float(v)
np_float(build, v) ==
    IF build = "numpy<1.24" THEN [err |-> OK, attr |-> NcDouble(v.text)]
    ELSE [err |-> AttributeError, attr |-> NcDouble("")]

\* the body of the loop over meta_data, up to the value handed to __setattr__
Coerce(build, v) ==
    IF v.type \in {"bool", "int"} THEN np_int32(build, v)
    ELSE IF v.type = "float" THEN np_float(build, v)
    ELSE IF v.type = "str" THEN [err |-> OK, attr |-> NcString(v.text)]
    ELSE [err |-> TypeError, attr |-> NcString("")]

\* for k, v in meta_data.items(): coerce, self.dataset.__setattr__(k, v)
RECURSIVE SetMetaData(_, _, _)
SetMetaData(ds, build, meta_data) ==
    IF meta_data = <<>> THEN [err |-> OK, ds |-> ds]
    ELSE LET kv == Head(meta_data)
             c == Coerce(build, kv.v)
         IN  IF c.err # OK THEN [err |-> c.err, ds |-> ds]
             ELSE SetMetaData([ds EXCEPT !.attrs = Put(@, kv.k, c.attr)],
                              build, Tail(meta_data))

initialise_dataset(ds, build, a) ==
    LET a1 == Put(ds.attrs, "conventions", NcString("CF-1.8"))
        a2 == Put(a1, "institution",
                  NcString("Helmholtz-Zentrum Hereon, Institute of Coastal Systems, Germany"))
        a3 == Put(a2, "title", NcString(a.title))
        a4 == Put(a3, "source", NcString(a.source))
        a5 == Put(a4, "originator", NcString(a.originator))
        a6 == Put(a5, "contact", NcString(a.contact))
        a7 == Put(a6, "creation_date", NcString(a.now))
    IN  SetMetaData([ds EXCEPT !.attrs = a7], build, a.meta_data)

\* ncHereon.__init__: Dataset(filename, mode), self.dims = {}, and in write
\* mode initialise_dataset.  opened: whether Dataset() returned a handle.
__init__(old, build, a) ==
    IF a.mode # "w" /\ ~old.exists
    THEN [err |-> FileNotFoundError, opened |-> FALSE, ds |-> old]
    ELSE IF a.mode # "w"
    THEN [err |-> OK, opened |-> TRUE,
          ds |-> [old EXCEPT !.isopen = TRUE, !.mode = a.mode]]
    ELSE LET r == initialise_dataset(EmptyDataset, build, a)
         IN  [err |-> r.err, opened |-> TRUE, ds |-> r.ds]

----------------------------------------------------------------------------
\* ncGliderFlight: the serializer recipes.  A recipe is the sequence of the
\* steps of its loops: a call of add_meta_variable, a call of add_parameter,
\* a lookup that raises, or an iteration that `continue` skips.

Min(a, b) == IF a <= b THEN a ELSE b

MetaCall(name, unit, value) ==
    [kind |-> "meta", name |-> name, unit |-> unit, value |-> value,
     t |-> <<>>, x |-> <<>>, standard_name |-> None, time_dimension |-> None,
     err |-> OK]

ParamCall(name, unit, t, x, standard_name, time_dimension) ==
    [kind |-> "param", name |-> name, unit |-> unit, value |-> 0,
     t |-> t, x |-> x, standard_name |-> standard_name,
     time_dimension |-> time_dimension, err |-> OK]

RaiseStep(e) ==
    [kind |-> "raise", name |-> <<>>, unit |-> "", value |-> 0,
     t |-> <<>>, x |-> <<>>, standard_name |-> None, time_dimension |-> None,
     err |-> e]

SkipStep ==
    [kind |-> "skip", name |-> <<>>, unit |-> "", value |-> 0,
     t |-> <<>>, x |-> <<>>, standard_name |-> None, time_dimension |-> None,
     err |-> OK]

\* one step on h
RunStep(h, c) ==
    IF c.kind = "meta" THEN add_meta_variable(h, c.name, c.unit, c.value, "f4")
    ELSE IF c.kind = "param"
    THEN add_parameter(h, c.name, c.unit, <<c.t, c.x>>, c.standard_name,
                       c.time_dimension)
    ELSE IF c.kind = "raise" THEN Raise(c.err, h.dataset, h.dims)
    ELSE Return(h.dataset, h.dims)

\* the steps in order, up to and including the first that raises; made is
\* the number of steps begun
RECURSIVE RunSteps(_, _, _)
RunSteps(h, steps, made) ==
    IF steps = <<>>
    THEN [err |-> OK, dataset |-> h.dataset, dims |-> h.dims, made |-> made]
    ELSE LET r == RunStep(h, Head(steps)) IN
         IF r.err # OK
         THEN [err |-> r.err, dataset |-> r.dataset, dims |-> r.dims,
               made |-> made + 1]
         ELSE RunSteps([dataset |-> r.dataset, dims |-> r.dims], Tail(steps),
                       made + 1)

\* calibration_result.keys(), a dictionary being its items in insertion order
DictKeys(d) == {d[i].k : i \in 1..Len(d)}

\* d[k] for a key d holds
DictGet(d, k) == d[CHOOSE i \in 1..Len(d) : d[i].k = k].v

\* the first loop of write_glider_flight_parameters
MetaSteps(GM, calibration_result) ==
    [i \in 1..Len(GM.parameters) |->
        LET p == GM.parameters[i] IN
        IF p \in DictKeys(calibration_result) THEN SkipStep
        ELSE IF p \notin DOMAIN GM.parameter_units \/ p \notin DOMAIN GM.dict
        THEN RaiseStep(KeyError)
        ELSE MetaCall(<<"glider_flight", p>>, GM.parameter_units[p], GM.dict[p])]

\* the second loop of write_glider_flight_parameters, its add_parameter
\* calls on the axis tdim
SeriesSteps(GM, calibration_result, tdim) ==
    [i \in 1..Len(calibration_result) |->
        LET p == calibration_result[i].k IN
        IF p = "t" THEN SkipStep
        ELSE IF p \notin DOMAIN GM.parameter_units
                \/ "t" \notin DictKeys(calibration_result)
        THEN RaiseStep(KeyError)
        ELSE ParamCall(<<"glider_flight", p>>, GM.parameter_units[p],
                       DictGet(calibration_result, "t"),
                       calibration_result[i].v, None, tdim)]

\* the steps of write_glider_flight_parameters without its tdim
GliderFlightStepsDefaultAxis(GM, calibration_result) ==
    MetaSteps(GM, calibration_result)
        \o SeriesSteps(GM, calibration_result, None)

GliderFlightSteps(GM, calibration_result) ==
    MetaSteps(GM, calibration_result)
        \o SeriesSteps(GM, calibration_result, "Tgf")

\* write_glider_flight_parameters with the time series on the default axis
write_glider_flight_parameters_default_axis(h, GM, calibration_result) ==
    RunSteps(h, MetaSteps(GM, calibration_result)
                    \o SeriesSteps(GM, calibration_result, None), 0)

write_glider_flight_parameters(h, GM, calibration_result) ==
    RunSteps(h, GliderFlightSteps(GM, calibration_result), 0)

\* the tables of write_thermal_lag_coefs
ThermalLagNames == <<"alpha", "beta", "tau">>

ThermalLagUnits == <<"-", "s", "s">>

\* zip(names, thermal_lag_coefs, units) stops with its shortest argument
ThermalLagSteps(thermal_lag_coefs) ==
    [i \in 1..Min(Len(ThermalLagNames), Len(thermal_lag_coefs)) |->
        MetaCall(<<"thermal_lag_coefs", ThermalLagNames[i]>>, ThermalLagUnits[i],
                 thermal_lag_coefs[i])]

write_thermal_lag_coefs(h, thermal_lag_coefs) ==
    RunSteps(h, ThermalLagSteps(thermal_lag_coefs), 0)

\* the tables of write_model_results
ModelParameters ==
    <<"u", "w", "U", "alpha", "pitch", "ww", "heading", "depth", "lat", "lon",
      "density", "SA", "CT", "pot_density", "buoyancy_change">>

ModelUnits ==
    <<"m s^{-1}", "m s^{-1}", "m s^{-1}", "rad", "rad", "m s^{-1}", "rad", "m",
      "decimal degree", "decimal degree", "kg m^{-3}", "kg kg^{-1}",
      "degree Celcius", "kg m^{-3}", "cc">>

ModelLongNames ==
    <<"horizontal velocity relative to water (in flight direction)",
      "vertical velocity relative to water", "speed through water",
      "angle of attack", "pitch angle", "vertical water velocity",
      "heading angle", "depth", "latitude", "longitude", "in-situ density",
      "absolute salinity", "conservative temperature", "potential density",
      "buoyancy_change">>

\* zip(parameters, units, long_names, model_result[first:]): a model result
\* is the tuple (t, series 1, series 2, ...), its element 0 the time vector
ModelSteps(model_result, first) ==
    [i \in 1..Min(Len(ModelParameters), Len(model_result) - first) |->
        ParamCall(<<ModelParameters[i]>>, ModelUnits[i], model_result[1],
                  model_result[first + i], ModelLongNames[i], None)]

\* write_model_results zipping the whole tuple, the time vector included
write_model_results_from_t(h, model_result) ==
    RunSteps(h, ModelSteps(model_result, 0), 0)

write_model_results(h, model_result) ==
    RunSteps(h, ModelSteps(model_result, 1), 0)

----------------------------------------------------------------------------
\* The inputs the callers of the model draw from.

\* parameter names: two top-level ones and one in a group
Names == {<<"x">>, <<"y">>, <<"g", "x">>}

\* the time_dimension keyword: not given, or a secondary axis
TimeDims == {None, "Tgf"}

\* the lengths of time and value series: the shortest and the longest
Lengths == {1, MaxLen}

\* the lengths of depth series
DepthLengths == {2, MaxLen + 1}

\* time series 1 .. n
Times == {[i \in 1..n |-> i] : n \in Lengths}

\* value series
Values == {[i \in 1..n |-> 7] : n \in Lengths}

\* depth series 10, 20, ...
Depths == {[j \in 1..n |-> 10 * j] : n \in DepthLengths}

\* time x depth values: nt rows of nz values
Grid(nt, nz) == [i \in 1..nt |-> [j \in 1..nz |-> 8]]

\* the positional series of an add_parameter call: (time, values) ...
SeriesArgs == {<<t, x>> : t \in Times, x \in Values}

\* ... and (time, z, values), the values sampled at the longest time series
\* and at a number of depths that need not be the length of z
ProfileArgs ==
    {<<[i \in 1..MaxLen |-> i], z, Grid(MaxLen, nz)>> :
        z \in Depths, nz \in DepthLengths}

\* ... and of the other arities: none, one, four
BadArgs == {<<>>, <<<<1>>>>, <<<<1>>, <<10, 20>>, Grid(1, 2), Grid(1, 2)>>}

\* scalar values for add_meta_variable; the second is not a float32
MetaValues == {60, 16777217}

\* get_default_conf() as example.py fills it
ExampleConf ==
    [title |-> "example", source |-> "example.py",
     originator |-> "Lucas Merckelbach", contact |-> "lucas.merckelbach@hzg.de"]

\* the constructor's defaults
DefaultConf == [title |-> "", source |-> "", originator |-> "", contact |-> ""]

Confs == {ExampleConf, DefaultConf}

CtorArgs(mode, conf, crs, meta_data) ==
    [mode |-> mode, meta_data |-> meta_data, title |-> conf.title,
     source |-> conf.source, originator |-> conf.originator,
     contact |-> conf.contact, now |-> "2026-11-05T20:11:05", crs |-> crs]

\* one keyword/value pair of **meta_data
KV(k, v) == [k |-> k, v |-> v]

\* the metadata of example.py
ExampleMeta == <<KV("description", PyStr("Example description"))>>

\* metadata entries of every kind a caller may pass
MetaEntries ==
    {KV("depth_rating", PyBool(1)), KV("num_sensors", PyInt(0, 4)),
     KV("num_sensors", PyInt(Two16 \div 2, 0)), KV("offset", PyFloat("1.5")),
     KV("description", PyStr("Example description")), KV("layout", PyDict)}

MetaDatas ==
    {<<>>} \cup {<<e>> : e \in MetaEntries}
    \cup {ef \in MetaEntries \X MetaEntries : ef[1].k # ef[2].k}

\* a glider flight model: its parameter names, their units and its
\* attributes; the parameter "ah" has no unit
FlightModel(parameters) ==
    [parameters |-> parameters,
     parameter_units |-> [p \in {"mg", "Vg", "Cd0"} |->
                            IF p = "mg" THEN "kg"
                            ELSE IF p = "Vg" THEN "m^3" ELSE "-"],
     dict |-> [p \in {"mg", "Vg", "Cd0", "ah"} |->
                 IF p = "mg" THEN 60
                 ELSE IF p = "Vg" THEN 52 ELSE IF p = "Cd0" THEN 15 ELSE 4]]

FlightModels ==
    {FlightModel(<<"mg", "Vg", "Cd0">>), FlightModel(<<"Cd0", "mg">>),
     FlightModel(<<"mg", "ah">>)}

\* the time vector of a calibration, n windows long
CalibrationTime(n) == [i \in 1..n |-> 5 * i]

\* the calibrated values of a parameter, one per window, near base
Calibrated(n, base) == [i \in 1..n |-> base + i]

\* calibration results: one or two calibrated parameters with "t" first or
\* in the middle, "t" alone, and a parameter the model has no unit for
CalibrationResults ==
    UNION {{<<KV("t", CalibrationTime(n)), KV("Cd0", Calibrated(n, 20))>>,
            <<KV("Cd0", Calibrated(n, 20)), KV("t", CalibrationTime(n)),
              KV("Vg", Calibrated(n, 50))>>} : n \in Lengths}
    \cup {<<KV("t", CalibrationTime(1))>>,
          <<KV("t", CalibrationTime(1)), KV("ah", Calibrated(1, 0))>>}

\* the inputs of write_glider_flight_parameters that the model can serve:
\* the parameters are distinct, "t" is a key of the calibration result and
\* not a parameter, every other key is a parameter, and every name has a
\* unit and a value
WellFormed(GM, calibration_result) ==
    /\ \A i, j \in 1..Len(GM.parameters) :
          GM.parameters[i] = GM.parameters[j] => i = j
    /\ \A i, j \in 1..Len(calibration_result) :
          calibration_result[i].k = calibration_result[j].k => i = j
    /\ "t" \in DictKeys(calibration_result)
    /\ \A i \in 1..Len(GM.parameters) :
          /\ GM.parameters[i] # "t"
          /\ GM.parameters[i] \in DOMAIN GM.parameter_units
          /\ GM.parameters[i] \in DOMAIN GM.dict
    /\ DictKeys(calibration_result) \ {"t"} \subseteq
          {GM.parameters[i] : i \in 1..Len(GM.parameters)}

\* thermal lag coefficients (alpha, beta, tau), and a tuple one short
ThermalLagCoefs == {<<1, 2, 3>>, <<4, 5>>}

\* a model result: the time vector and nseries output series of n samples,
\* series i holding 100 * i + 1, 100 * i + 2, ...
ModelResult(n, nseries) ==
    <<[k \in 1..n |-> 10 * k]>>
        \o [i \in 1..nseries |-> [k \in 1..n |-> 100 * i + k]]

\* the number of quantities of a model result
NumQuantities == Len(ModelParameters)

\* model results of every length, and one that lacks the last series
ModelResults ==
    {ModelResult(n, NumQuantities) : n \in Lengths}
        \cup {ModelResult(MaxLen, NumQuantities - 1)}

----------------------------------------------------------------------------
\* The state machine.

\* what the last call was (its name, the number of its positional series,
\* the axis it asked for) and how it ended
Res(op, nargs, axis, err, val) ==
    [op |-> op, nargs |-> nargs, axis |-> axis, err |-> err, val |-> val]

NoResult == Res("none", 0, "", OK, <<>>)

\* no add_parameter call has returned yet
NoAdd == [name |-> <<>>, t |-> <<>>, values |-> <<>>, axis |-> "", nargs |-> 0]

Init ==
    /\ dataset = NoDataset
    /\ dims = {}
    /\ state = "UNINITIALIZED"
    /\ pc = "none"
    /\ result = NoResult
    /\ ctor = CtorArgs("w", DefaultConf, "WGS84", <<>>)
    /\ firstReq = <<>>
    /\ lastAdd = NoAdd
    /\ doubleClose = FALSE
    /\ nops = 0
    /\ inst = 0

self == [dataset |-> dataset, dims |-> dims]

\* where control is after a call that ended with err: an exception in the
\* body of a with statement leaves the body
AfterCall(err) == IF pc = "body" /\ err # OK THEN "raised" ELSE pc

\* the caller holds an object and is free to call it
Callable == state \in {"OPEN", "CLOSED"} /\ pc \in {"none", "body", "done"}

\* nc = ncHereon(filename, mode, **conf), or `with ncHereon(...) as nc:`
Construct(build, a, scoped) ==
    /\ ~dataset.isopen
    /\ pc \in {"none", "done"}
    /\ inst < MaxInst
    /\ LET r == __init__(dataset, build, a) IN
       /\ dataset' = r.ds
       /\ ctor' = a
       /\ result' = Res("__init__", 0, "", r.err, <<>>)
       /\ IF r.opened
          THEN /\ dims' = {}
               /\ inst' = inst + 1
               /\ firstReq' = <<>>
               /\ lastAdd' = IF a.mode = "w" THEN NoAdd ELSE lastAdd
               /\ doubleClose' = FALSE
               /\ state' = IF r.err = OK THEN "OPEN" ELSE "UNINITIALIZED"
               /\ pc' = IF ~scoped THEN "none"
                        ELSE IF r.err = OK THEN "body" ELSE "done"
          ELSE UNCHANGED <<dims, inst, firstReq, lastAdd, doubleClose, state, pc>>
    /\ UNCHANGED nops

AddParameter(name, unit, v, standard_name, time_dimension) ==
    /\ Callable
    /\ nops < MaxOps
    /\ LET r == add_parameter(self, name, unit, v, standard_name, time_dimension)
           td == PyOr(time_dimension, "T")
           requested == Len(v) \in {2, 3} /\ dataset.isopen
       IN
       /\ dataset' = r.dataset
       /\ dims' = r.dims
       /\ result' = Res("add_parameter", Len(v), td, r.err, <<>>)
       /\ firstReq' = IF requested /\ td \notin DOMAIN firstReq
                      THEN Put(firstReq, td, [t |-> v[1], name |-> name])
                      ELSE firstReq
       /\ lastAdd' = IF r.err = OK
                     THEN [name |-> name, t |-> v[1], values |-> v[Len(v)],
                           axis |-> td, nargs |-> Len(v)]
                     ELSE lastAdd
       /\ pc' = AfterCall(r.err)
    /\ nops' = nops + 1
    /\ UNCHANGED <<state, ctor, doubleClose, inst>>

AddMetaVariable(name, unit, value) ==
    /\ Callable
    /\ nops < MaxOps
    /\ LET r == add_meta_variable(self, name, unit, value, "f4") IN
       /\ dataset' = r.dataset
       /\ dims' = r.dims
       /\ result' = Res("add_meta_variable", 0, "", r.err, <<>>)
       /\ pc' = AfterCall(r.err)
    /\ nops' = nops + 1
    /\ UNCHANGED <<state, ctor, firstReq, lastAdd, doubleClose, inst>>

Get(parameter, p) ==
    /\ Callable
    /\ LET r == get(self, parameter, p) IN
       /\ result' = Res("get", 1 + Len(p), "", r.err, r.val)
       /\ pc' = AfterCall(r.err)
    /\ UNCHANGED <<dataset, dims, state, ctor, firstReq, lastAdd, doubleClose,
                   nops, inst>>

Close ==
    /\ Callable
    /\ LET r == close(dataset) IN
       /\ dataset' = r.ds
       /\ result' = Res("close", 0, "", r.err, <<>>)
       /\ doubleClose' = (doubleClose \/ r.err # OK)
       /\ pc' = AfterCall(r.err)
    /\ state' = "CLOSED"
    /\ UNCHANGED <<dims, ctor, firstReq, lastAdd, nops, inst>>

\* __exit__: at the end of the body, or when a call in the body raised
Exit ==
    /\ pc \in {"body", "raised"}
    /\ LET r == close(dataset) IN
       /\ dataset' = r.ds
       /\ result' = Res("__exit__", 0, "", r.err, <<>>)
       /\ doubleClose' = (doubleClose \/ r.err # OK)
    /\ state' = "CLOSED"
    /\ pc' = "done"
    /\ UNCHANGED <<dims, ctor, firstReq, lastAdd, nops, inst>>

\* the axes first requested by the add_parameter calls among steps
RECURSIVE FirstRequests(_, _)
FirstRequests(fr, steps) ==
    IF steps = <<>> THEN fr
    ELSE LET c == Head(steps)
             td == PyOr(c.time_dimension, "T")
         IN  FirstRequests(IF c.kind = "param" /\ td \notin DOMAIN fr
                           THEN Put(fr, td, [t |-> c.t, name |-> c.name])
                           ELSE fr,
                           Tail(steps))

\* the last add_parameter call among steps, la when there is none
RECURSIVE LastAdded(_, _)
LastAdded(la, steps) ==
    IF steps = <<>> THEN la
    ELSE LET c == Head(steps) IN
         LastAdded(IF c.kind = "param"
                   THEN [name |-> c.name, t |-> c.t, values |-> c.x,
                         axis |-> PyOr(c.time_dimension, "T"), nargs |-> 2]
                   ELSE la,
                   Tail(steps))

\* a call of a recipe that took the steps and ended as r
Recipe(op, steps, r) ==
    /\ Callable
    /\ nops < MaxRecipes
    /\ dataset' = r.dataset
    /\ dims' = r.dims
    /\ result' = Res(op, r.made, "", r.err, <<>>)
    /\ firstReq' = IF dataset.isopen
                   THEN FirstRequests(firstReq, SubSeq(steps, 1, r.made))
                   ELSE firstReq
    /\ lastAdd' = LastAdded(lastAdd,
                            SubSeq(steps, 1,
                                   IF r.err = OK THEN r.made ELSE r.made - 1))
    /\ pc' = AfterCall(r.err)
    /\ nops' = nops + 1
    /\ UNCHANGED <<state, ctor, doubleClose, inst>>

WriteGliderFlightParameters ==
    \E GM \in FlightModels, calibration_result \in CalibrationResults :
        Recipe("write_glider_flight_parameters",
               GliderFlightSteps(GM, calibration_result),
               write_glider_flight_parameters(self, GM, calibration_result))

WriteThermalLagCoefs ==
    \E thermal_lag_coefs \in ThermalLagCoefs :
        Recipe("write_thermal_lag_coefs", ThermalLagSteps(thermal_lag_coefs),
               write_thermal_lag_coefs(self, thermal_lag_coefs))

WriteModelResults ==
    \E model_result \in ModelResults :
        Recipe("write_model_results", ModelSteps(model_result, 1),
               write_model_results(self, model_result))

\* the calls of the actions: the documented forms of add_parameter ...
AddDocumented ==
    \E name \in Names, v \in SeriesArgs \cup ProfileArgs, td \in TimeDims :
        AddParameter(name, "m", v, None, td)

\* ... the form write_model_results uses: a series on the primary axis with
\* a standard name
AddNamed ==
    \E name \in Names, v \in SeriesArgs :
        Len(v[1]) = Len(v[2]) /\ AddParameter(name, "m", v, "depth", None)

\* ... and a call with another number of series
AddOther ==
    \E v \in BadArgs, td \in TimeDims : AddParameter(<<"x">>, "m", v, None, td)

AddMeta ==
    \E name \in Names, value \in MetaValues : AddMetaVariable(name, "kg", value)

GetSome ==
    \E a \in {<<<<"x">>, <<>>>>, <<<<"y">>, <<<<"x">>>>>>, <<<<"g", "x">>, <<>>>>} :
        Get(a[1], a[2])

\* nc = ncHereon('example.nc', mode='w', **conf) as in example.py
OpenWrite ==
    /\ inst = 0
    /\ Construct("numpy<1.24", CtorArgs("w", ExampleConf, "WGS84", ExampleMeta),
                 FALSE)

\* The writer as example.py uses it: one object, constructed in write mode,
\* called and closed, and called after that.
Next ==
    \/ OpenWrite
    \/ AddDocumented
    \/ AddNamed
    \/ AddOther
    \/ AddMeta
    \/ GetSome
    \/ Close

Spec == Init /\ [][Next]_vars

\* The file written, closed and opened again by a later object, in any mode.
Reopen ==
    \E mode \in {"w", "r", "a"} :
        Construct("numpy<1.24", CtorArgs(mode, ExampleConf, "WGS84", ExampleMeta),
                  FALSE)

AddSeriesCall ==
    \E name \in Names, v \in SeriesArgs, td \in TimeDims :
        AddParameter(name, "m", v, None, td)

NextReopen ==
    \/ Reopen
    \/ AddSeriesCall
    \/ GetSome
    \/ Close

SpecReopen == Init /\ [][NextReopen]_vars

\* The writer as its docstring asks: `with ncHereon(...) as nc:` and a body.
With ==
    \E build \in Builds,
       meta_data \in {ExampleMeta, <<KV("offset", PyFloat("1.5"))>>} :
        /\ inst = 0
        /\ Construct(build, CtorArgs("w", ExampleConf, "WGS84", meta_data), TRUE)

NextScoped ==
    \/ With
    \/ AddDocumented
    \/ AddOther
    \/ AddMeta
    \/ GetSome
    \/ Close
    \/ Exit

SpecScoped == Init /\ [][NextScoped]_vars

\* The constructor on its own: every mode, configuration and metadata.
Open ==
    \E build \in Builds, mode \in {"w", "r", "a"}, conf \in Confs,
       crs \in {"WGS84", "ETRS89"}, meta_data \in MetaDatas :
        Construct(build, CtorArgs(mode, conf, crs, meta_data), FALSE)

NextOpen ==
    \/ Open
    \/ Close

SpecOpen == Init /\ [][NextOpen]_vars

\* ncGliderFlight(filename, mode='w'): the constructor of ncHereon
OpenFlight ==
    /\ inst = 0
    /\ Construct("numpy<1.24", CtorArgs("w", ExampleConf, "WGS84", <<>>), FALSE)

\* The serializer: one ncGliderFlight object and its recipes, in any order.
NextFlight ==
    \/ OpenFlight
    \/ WriteGliderFlightParameters
    \/ WriteThermalLagCoefs
    \/ WriteModelResults
    \/ Close

SpecFlight == Init /\ [][NextFlight]_vars

----------------------------------------------------------------------------
\* The properties.

\* the companion time variable of the call that first requested axis A
CompanionOf(A) == NormPath(_get_time_name(firstReq[A].name))

\* C1 (axis idempotence): every unbounded axis A that an add_parameter call
\* has requested on the open dataset exists, with its companion time
\* variable on A created by the first call that requested A, and the values
\* of that variable are the time series that first call supplied, whatever
\* later calls requested A and whatever they supplied.
C1_AxisIdempotence ==
    \A A \in DOMAIN firstReq :
        /\ A \in dims
        /\ A \in DOMAIN dataset.dimensions
        /\ CompanionOf(A) \in DOMAIN dataset.variables
        /\ dataset.variables[CompanionOf(A)].dimensions = <<A>>
        /\ dataset.variables[CompanionOf(A)].data = firstReq[A].t

\* the open dataset holds the depth axis
HasZ == state = "OPEN" /\ "Z" \in dims

\* the length the depth axis was created with
L == dataset.dimensions["Z"].size

\* the depth extent of a time x depth array
DepthExtent(grid) == Len(grid[1])

\* every time x depth variable of ds reads back with rows of length n
ProfilesHaveDepth(ds, n) ==
    \A path \in DOMAIN ds.variables :
        Len(ds.variables[path].dimensions) = 2 =>
            \A i \in 1..Len(ReadVar(ds, path)) : Len(ReadVar(ds, path)[i]) = n

\* the names a 3-argument call would create are free: its variable is not
\* in the file, and its axis is registered or its companion time variable
\* is not in the file
Free(name, td) ==
    /\ NormPath(name) \notin DOMAIN dataset.variables
    /\ \/ PyOr(td, "T") \in dims
       \/ NormPath(_get_time_name(name)) \notin DOMAIN dataset.variables

\* C2 as claimed (fixed-axis length lock-in): once "Z" exists with length
\* L, every 3-argument add_parameter call under free names that supplies a
\* depth series of another length fails with a shape error, and every call
\* that supplies a depth series of length L succeeds, the series reading
\* back with depth length L.
C2_LockInByDepthSeries ==
    HasZ =>
        \A name \in Names, v \in ProfileArgs, td \in TimeDims :
            LET r == add_parameter(self, name, "m", v, None, td) IN
            Free(name, td) =>
                /\ Len(v[2]) # L => r.err = ShapeError
                /\ Len(v[2]) = L => r.err = OK /\ ProfilesHaveDepth(r.dataset, L)

\* C2 as amended: once "Z" exists with length L, a 3-argument call under
\* free names fails with a shape error when its values have a depth extent
\* other than L and succeeds when their depth extent is L, whatever the
\* length of the depth series it passes; a call under a name in use fails
\* with that error; after a call that succeeds every time x depth series
\* reads back with depth length L.
C2_LockIn ==
    HasZ =>
        \A name \in Names, v \in ProfileArgs, td \in TimeDims :
            LET r == add_parameter(self, name, "m", v, None, td) IN
            /\ Free(name, td) /\ DepthExtent(v[3]) # L => r.err = ShapeError
            /\ Free(name, td) /\ DepthExtent(v[3]) = L =>
                  r.err = OK /\ ProfilesHaveDepth(r.dataset, L)
            /\ ~Free(name, td) => r.err = NameInUse

\* C2 witness: a time x depth series has been stored and a later
\* 3-argument call has failed with a shape error.
C2_Witness ==
    /\ HasZ
    /\ result.op = "add_parameter" /\ result.nargs = 3 /\ result.err = ShapeError
    /\ \E path \in DOMAIN dataset.variables :
          /\ Len(dataset.variables[path].dimensions) = 2
          /\ dataset.variables[path].data # <<>>

\* C3 (arity rejection): in every state of the dataset an add_parameter
\* call with 0, 1 or 4 positional series raises a value error and leaves
\* the file and the registry as they were, also for an axis name that is
\* not in the registry.
C3_ArityRejection ==
    state \in {"OPEN", "CLOSED"} =>
        \A name \in Names, v \in BadArgs, sn \in {None, "depth"},
           td \in TimeDims \cup {"Tnew"} :
            LET r == add_parameter(self, name, "m", v, sn, td) IN
            /\ r.err = ValueError
            /\ r.dataset = dataset
            /\ r.dims = dims

\* C3 witness: a call with another arity, naming an axis the registry does
\* not hold, has failed with a value error on the open dataset.
C3_Witness ==
    /\ state = "OPEN"
    /\ result.op = "add_parameter"
    /\ result.nargs \notin {2, 3}
    /\ result.err = ValueError
    /\ result.axis \notin dims
    /\ dims # {}

\* the file holds exactly one parameter, top-level, added by the 2-argument
\* form on the default axis, and is open again in read mode
ReopenedForRead ==
    /\ state = "OPEN"
    /\ dataset.mode = "r"
    /\ nops = 1
    /\ lastAdd.nargs = 2
    /\ Len(lastAdd.name) = 1
    /\ lastAdd.axis = "T"

\* C4 as claimed (round trip): after add_parameter(name, unit, t, values)
\* on the default axis, close, and reopening in read mode, get(name) is
\* [t, values].
C4_RoundTripAnyLengths ==
    ReopenedForRead =>
        get(self, lastAdd.name, <<>>) =
            [err |-> OK, val |-> <<lastAdd.t, lastAdd.values>>]

\* C4 as amended: the round trip returns [t, values] when t and values have
\* the same length.
C4_RoundTrip ==
    ReopenedForRead /\ Len(lastAdd.t) = Len(lastAdd.values) =>
        get(self, lastAdd.name, <<>>) =
            [err |-> OK, val |-> <<lastAdd.t, lastAdd.values>>]

\* C4 witness: get has returned the two series of the longest length from
\* the file reopened in read mode.
C4_Witness ==
    /\ ReopenedForRead
    /\ Len(lastAdd.t) = MaxLen /\ Len(lastAdd.values) = MaxLen
    /\ result.op = "get" /\ result.err = OK
    /\ result.val = <<lastAdd.t, lastAdd.values>>

\* C5 (group naming of meta variables): add_meta_variable under a name not
\* in the file, top-level or in a group, creates a variable on no
\* dimension under that name, with an attribute `units` holding the unit
\* and with the value as its storage type holds it, and changes neither
\* the registry nor the dimensions of the file.
C5_MetaVariable ==
    state = "OPEN" =>
        \A name \in Names, value \in MetaValues :
            NormPath(name) \notin DOMAIN dataset.variables =>
                LET r == add_meta_variable(self, name, "kg", value, "f4")
                    var == r.dataset.variables[NormPath(name)]
                IN
                /\ r.err = OK
                /\ NormPath(name) \in DOMAIN r.dataset.variables
                /\ var.dimensions = <<>>
                /\ var.data = <<Cast("f4", value)>>
                /\ r.dims = dims
                /\ r.dataset.dimensions = dataset.dimensions
                /\ "units" \in DOMAIN var.attrs
                /\ var.attrs["units"] = "kg"

\* the primary axis exists with the coordinate variable its first request
\* created
HasT ==
    /\ state = "OPEN"
    /\ "T" \in dims
    /\ "T" \in DOMAIN firstReq
    /\ CompanionOf("T") \in DOMAIN dataset.variables
    /\ dataset.variables[CompanionOf("T")].dimensions = <<"T">>

\* the values of the variables that keys names, in order
Stored(keys) == [i \in 1..Len(keys) |-> ReadVar(dataset, NormPath(keys[i]))]

\* C6 (get): with the primary axis created, by a top-level or by a
\* group-path call, get(parameter, *extra) on variables that exist returns
\* the coordinate values of "T", then the values of parameter, then those
\* of each extra parameter.  (That get changes nothing is in the signature
\* of get: it returns values only.)
C6_GetPrimaryAxisFirst ==
    HasT =>
        \A parameter \in Names, p \in {<<>>} \cup {<<n>> : n \in Names} :
            (\A i \in 1..Len(<<parameter>> \o p) :
                NormPath((<<parameter>> \o p)[i]) \in DOMAIN dataset.variables) =>
                get(self, parameter, p) =
                    [err |-> OK,
                     val |-> <<ReadVar(dataset, CompanionOf("T"))>>
                             \o Stored(<<parameter>> \o p)]

\* an add_meta_variable, add_parameter or get on h ends in an error and
\* leaves the file and the registry of h as they are
AllCallsFail(h) ==
    /\ \A name \in Names, value \in MetaValues :
          LET r == add_meta_variable(h, name, "kg", value, "f4") IN
          r.err # OK /\ r.dataset = h.dataset /\ r.dims = h.dims
    /\ \A name \in Names, v \in SeriesArgs \cup ProfileArgs \cup BadArgs,
          td \in TimeDims :
          LET r == add_parameter(h, name, "m", v, None, td) IN
          r.err # OK /\ r.dataset = h.dataset /\ r.dims = h.dims
    /\ \A parameter \in Names \cup {<<"time">>}, p \in {<<>>, <<<<"x">>>>} :
          get(h, parameter, p).err # OK

\* the steps of the life cycle
LifecycleStep ==
    /\ state' # state =>
          <<state, state'>> \in {<<"UNINITIALIZED", "OPEN">>, <<"OPEN", "CLOSED">>}
    /\ state = "CLOSED" => dataset' = dataset /\ dims' = dims

\* C7 (lifecycle): the object is UNINITIALIZED, then OPEN with its handle
\* open, then CLOSED with its handle closed, and never leaves CLOSED; every
\* add_meta_variable, add_parameter and get after close ends in an error
\* and leaves the registry and the file unchanged.
C7_Lifecycle ==
    /\ [](/\ state = "UNINITIALIZED" => ~dataset.isopen
          /\ state = "OPEN" => dataset.isopen
          /\ state = "CLOSED" => ~dataset.isopen /\ AllCallsFail(self))
    /\ [][LifecycleStep]_vars

\* C7 witness: an add_parameter call that creates an axis has been made on
\* the closed object, which holds a variable, and has raised.
C7_Witness ==
    /\ state = "CLOSED"
    /\ dataset.variables # <<>>
    /\ result.op = "add_parameter" /\ result.nargs = 2
    /\ result.axis \notin dims
    /\ result.err = NotValidID

\* C8 (scoped release): when control has left the with statement the handle
\* is closed, whether the body ran to its end, a call in it raised, or the
\* constructor raised while writing metadata; and __exit__ never closes a
\* handle that is closed already, also when the body has called close().
C8_ScopedRelease ==
    /\ pc = "done" /\ result.op \in {"__init__", "__exit__"} => ~dataset.isopen
    /\ result.op = "__exit__" => result.err = OK

\* the entries of the metadata are booleans, integers, floats and strings
Coercible(meta_data) ==
    \A i \in 1..Len(meta_data) :
        meta_data[i].v.type \in {"bool", "int", "float", "str"}

\* the attribute the claim gives a metadata value
Coerced(v) ==
    IF v.type \in {"bool", "int"} THEN NcInt(v.hi, v.lo)
    ELSE IF v.type = "float" THEN NcDouble(v.text)
    ELSE NcString(v.text)

\* C9 (metadata coercion): a constructor call in write mode whose metadata
\* holds booleans, integers, floats and strings raises no error and stores
\* each boolean and integer as a 32-bit integer attribute of the same
\* value, each float as a floating-point attribute of the same value and
\* each string unchanged.
C9_MetadataCoercion ==
    result.op = "__init__" /\ ctor.mode = "w" /\ Coercible(ctor.meta_data) =>
        /\ result.err = OK
        /\ \A i \in 1..Len(ctor.meta_data) :
              LET kv == ctor.meta_data[i] IN
              /\ kv.k \in DOMAIN dataset.attrs
              /\ dataset.attrs[kv.k] = Coerced(kv.v)

\* the global attributes the claim lists for constructor arguments a
HasGlobalAttributes(attrs, a) ==
    /\ {"conventions", "institution", "creation_date", "title", "source",
        "originator", "contact"} \subseteq DOMAIN attrs
    /\ attrs["conventions"] = NcString("CF-1.8")
    /\ attrs["institution"] =
          NcString("Helmholtz-Zentrum Hereon, Institute of Coastal Systems, Germany")
    /\ attrs["creation_date"] = NcString(a.now)
    /\ attrs["title"] = NcString(a.title)
    /\ attrs["source"] = NcString(a.source)
    /\ attrs["originator"] = NcString(a.originator)
    /\ attrs["contact"] = NcString(a.contact)
    /\ "crs" \in DOMAIN attrs
    /\ attrs["crs"] = NcString(a.crs)

\* C10 (global attributes at open): a constructor call in write mode that
\* returns leaves the convention identifier, the institution, a creation
\* date and the caller's title, source, originator, contact and crs as
\* global attributes, whatever the extra metadata; a constructor call in
\* read mode leaves the global attributes of the file as they are.
C10_GlobalAttributes ==
    /\ result.op = "__init__" /\ ctor.mode = "w" /\ result.err = OK =>
          HasGlobalAttributes(dataset.attrs, ctor)
    /\ ~dataset.isopen =>
          \A build \in Builds, conf \in Confs, meta_data \in MetaDatas :
              __init__(dataset, build,
                       CtorArgs("r", conf, "ETRS89", meta_data)).ds.attrs
                  = dataset.attrs

\* the variables of ds in the group "glider_flight"
FlightGroup(ds) ==
    {path \in DOMAIN ds.variables : path[1] = "glider_flight" /\ Len(path) = 2}

\* the names of a flight model's parameters
ParameterSet(GM) == {GM.parameters[i] : i \in 1..Len(GM.parameters)}

\* C11 (flight-model parameter group): on an open Dataset that holds
\* nothing in the group yet, with or without the primary axis,
\* write_glider_flight_parameters returns and has created exactly: one
\* variable on no dimension "glider_flight/p", holding the model's value,
\* for each parameter p that is no calibration key; one series
\* "glider_flight/p" on "Tgf", holding the calibrated values, for each
\* calibration key p other than "t"; and the companion time variable of
\* "Tgf"; nothing for "t"; and the series are on "Tgf" and not on "T" also
\* after a write_model_results that follows.
C11_FlightGroup ==
    state = "OPEN" /\ FlightGroup(dataset) = {} =>
        \A GM \in FlightModels, calibration_result \in CalibrationResults :
            WellFormed(GM, calibration_result) =>
                LET r == write_glider_flight_parameters(self, GM, calibration_result)
                    new == DOMAIN r.dataset.variables \ DOMAIN dataset.variables
                    metas == ParameterSet(GM) \ DictKeys(calibration_result)
                    series == DictKeys(calibration_result) \ {"t"}
                    companion == IF series = {} \/ "Tgf" \in dims THEN {}
                                 ELSE {<<"glider_flight", "time">>}
                IN
                /\ r.err = OK
                /\ new = {<<"glider_flight", p>> : p \in metas \cup series}
                            \cup companion
                /\ <<"glider_flight", "t">> \notin new
                /\ \A p \in metas :
                      LET var == r.dataset.variables[<<"glider_flight", p>>] IN
                      /\ var.dimensions = <<>>
                      /\ var.data = <<Cast("f4", GM.dict[p])>>
                /\ \A p \in series :
                      LET var == r.dataset.variables[<<"glider_flight", p>>] IN
                      /\ var.dimensions = <<"Tgf">>
                      /\ var.data = DictGet(calibration_result, p)
                /\ \A model_result \in ModelResults :
                      LET r2 == write_model_results(r, model_result) IN
                      /\ "T" \notin dims => r2.err = OK /\ "T" \in r2.dims
                      /\ \A p \in series :
                            r2.dataset.variables[<<"glider_flight", p>>].dimensions
                                = <<"Tgf">>

\* C11 witness: write_glider_flight_parameters has returned on a Dataset
\* that had the primary axis already, and has left a scalar and a series
\* on "Tgf" in the group.
C11_Witness ==
    /\ state = "OPEN"
    /\ result.op = "write_glider_flight_parameters" /\ result.err = OK
    /\ "T" \in dims /\ "Tgf" \in dims
    /\ \E a, b \in FlightGroup(dataset) :
          /\ dataset.variables[a].dimensions = <<>>
          /\ dataset.variables[b].dimensions = <<"Tgf">>
          /\ b # <<"glider_flight", "time">>

\* the top-level variables of ds
TopLevel(ds) == {path \in DOMAIN ds.variables : Len(path) = 1}

\* C12 (model-output bundle): on an open Dataset that holds none of the 15
\* quantities, write_model_results of a time vector and 15 output series
\* returns and has created, at the top level, exactly one series on "T"
\* for each quantity of the ordered list (and the time variable of "T" when
\* the call created the axis), the i-th holding the i-th output series,
\* with the i-th unit as `units` and the i-th long name as `standard_name`.
C12_ModelBundle ==
    state = "OPEN" /\ TopLevel(dataset) \subseteq {<<"time">>} =>
        \A model_result \in ModelResults :
            Len(model_result) = NumQuantities + 1 =>
                LET r == write_model_results(self, model_result)
                    new == DOMAIN r.dataset.variables \ DOMAIN dataset.variables
                IN
                /\ r.err = OK
                /\ r.made = NumQuantities
                /\ new = {<<ModelParameters[i]>> : i \in 1..NumQuantities}
                            \cup (IF "T" \in dims THEN {} ELSE {<<"time">>})
                /\ \A i \in 1..NumQuantities :
                      LET var == r.dataset.variables[<<ModelParameters[i]>>] IN
                      /\ var.dimensions = <<"T">>
                      /\ var.data = model_result[i + 1]
                      /\ var.attrs["units"] = ModelUnits[i]
                      /\ var.attrs["standard_name"] = ModelLongNames[i]

\* C12 witness: write_model_results has made its 15 calls and returned, and
\* the last quantity is in the file with its unit and its series.
C12_Witness ==
    /\ state = "OPEN"
    /\ result.op = "write_model_results" /\ result.err = OK
    /\ result.nargs = NumQuantities
    /\ <<"buoyancy_change">> \in DOMAIN dataset.variables
    /\ dataset.variables[<<"buoyancy_change">>].attrs["units"] = "cc"
    /\ dataset.variables[<<"buoyancy_change">>].data =
          ModelResult(MaxLen, NumQuantities)[NumQuantities + 1]

\* the last call was an add_parameter call that returned
AddReturned ==
    /\ state = "OPEN"
    /\ result.op = "add_parameter" /\ result.err = OK
    /\ lastAdd.nargs \in {2, 3}

\* C13 (companion time variable naming): the time variable of "g/x" is
\* "g/time" and that of a top-level "x" is "time"; a call that returned
\* and was the first to request its axis has left that variable on the
\* axis; after a call that returned the group of its parameter holds a
\* companion time variable; and the companion names of two different axes
\* that have been requested differ.
C13_CompanionNaming ==
    /\ NormPath(_get_time_name(<<"g", "x">>)) = <<"g", "time">>
    /\ NormPath(_get_time_name(<<"x">>)) = <<"time">>
    /\ AddReturned /\ firstReq[lastAdd.axis].name = lastAdd.name =>
          /\ CompanionOf(lastAdd.axis) \in DOMAIN dataset.variables
          /\ dataset.variables[CompanionOf(lastAdd.axis)].dimensions
                = <<lastAdd.axis>>
    /\ AddReturned =>
          NormPath(_get_time_name(lastAdd.name)) \in DOMAIN dataset.variables
    /\ state = "OPEN" =>
          \A A, B \in DOMAIN firstReq :
              A # B => CompanionOf(A) # CompanionOf(B)

\* the coordinate variable of the registered axis A is in the file, on A,
\* with the values of the call that first requested A
HasCoordinate(A) ==
    IF A = "Z"
    THEN /\ <<"z">> \in DOMAIN dataset.variables
         /\ dataset.variables[<<"z">>].dimensions = <<"Z">>
         /\ dataset.variables[<<"z">>].data \in Depths
         /\ Len(dataset.variables[<<"z">>].data) = dataset.dimensions["Z"].size
    ELSE /\ A \in DOMAIN firstReq
         /\ CompanionOf(A) \in DOMAIN dataset.variables
         /\ dataset.variables[CompanionOf(A)].dimensions = <<A>>
         /\ dataset.variables[CompanionOf(A)].data = firstReq[A].t

\* C14 (axis and coordinate variable go together): in every state of the
\* open Dataset, also after calls that failed, every axis in the registry
\* has its coordinate variable in the file, holding the values of the
\* first call that requested the axis.
C14_AxisHasCoordinate ==
    state = "OPEN" => \A A \in dims : HasCoordinate(A)

\* C15 (registry mirrors the file): in every state of an open Dataset,
\* whatever the mode it was opened in, the names in the registry are the
\* names of the dimensions of the file, and the creation that follows a
\* failed lookup of an axis never finds the name in use.
C15_RegistryMirrorsFile ==
    state = "OPEN" =>
        /\ dims = DOMAIN dataset.dimensions
        /\ \A A \in {"T", "Tgf", "Z"} :
              A \notin dims => createDimension(dataset, A, 0).err # NameInUse

\* the inputs of the three recipes
RecipeInputs ==
    [GM : FlightModels, calibration_result : CalibrationResults,
     thermal_lag_coefs : ThermalLagCoefs, model_result : ModelResults]

\* inputs every recipe can serve in full
Servable(in) ==
    /\ WellFormed(in.GM, in.calibration_result)
    /\ Len(in.thermal_lag_coefs) = Len(ThermalLagNames)
    /\ Len(in.model_result) = NumQuantities + 1

\* recipe k of the three
RunRecipe(h, k, in) ==
    IF k = 1 THEN write_glider_flight_parameters(h, in.GM, in.calibration_result)
    ELSE IF k = 2 THEN write_thermal_lag_coefs(h, in.thermal_lag_coefs)
    ELSE write_model_results(h, in.model_result)

\* the recipes in the given order, each on what the one before left, by a
\* caller that goes on after an exception; err is the first error
RECURSIVE RunOrder(_, _, _)
RunOrder(h, order, in) ==
    IF order = <<>> THEN Return(h.dataset, h.dims)
    ELSE LET r == RunRecipe(h, Head(order), in)
             rest == RunOrder([dataset |-> r.dataset, dims |-> r.dims],
                              Tail(order), in)
         IN  [err |-> IF r.err # OK THEN r.err ELSE rest.err,
              dataset |-> rest.dataset, dims |-> rest.dims]

Orders ==
    {<<1, 2, 3>>, <<1, 3, 2>>, <<2, 1, 3>>, <<2, 3, 1>>, <<3, 1, 2>>, <<3, 2, 1>>}

\* the object as its constructor left it
Fresh == [dataset |-> [dataset EXCEPT !.variables = <<>>, !.dimensions = <<>>],
          dims |-> {}]

\* the three recipes have been called once each on the open object
RanOnceEach ==
    /\ state = "OPEN"
    /\ nops = 3
    /\ FlightGroup(dataset) # {}
    /\ <<"thermal_lag_coefs", "alpha">> \in DOMAIN dataset.variables
    /\ <<"u">> \in DOMAIN dataset.variables

\* C16 (order independence of the recipes): on a fresh write-mode Dataset
\* the three recipes, run once each in any of the six orders on inputs
\* they can serve, all return, and leave the registry, the dimensions and
\* the variables (axes, attributes, values, coordinates of "T" and "Tgf"
\* included) that the order glider flight, thermal lag, model results
\* leaves; and every state the object reaches by three such calls is the
\* state that order leaves for some inputs.
C16_OrderIndependence ==
    /\ state = "OPEN" /\ self = Fresh =>
          \A in \in RecipeInputs : Servable(in) =>
              \A order \in Orders :
                  LET r == RunOrder(self, order, in) IN
                  /\ r.err = OK
                  /\ r.dataset = RunOrder(self, <<1, 2, 3>>, in).dataset
                  /\ r.dims = {"T", "Tgf"} \cap DOMAIN r.dataset.dimensions
                  /\ r.dims = RunOrder(self, <<1, 2, 3>>, in).dims
    /\ RanOnceEach =>
          \E in \in RecipeInputs :
              LET r == RunOrder(Fresh, <<1, 2, 3>>, in) IN
              r.dataset = dataset /\ r.dims = dims

\* C16 witness: model results, thermal lag coefficients and glider flight
\* parameters have been written, the glider flight parameters last, and
\* both axes hold their own coordinate values.
C16_Witness ==
    /\ RanOnceEach
    /\ result.op = "write_glider_flight_parameters" /\ result.err = OK
    /\ dims = {"T", "Tgf"}
    /\ dataset.variables[<<"time">>].data = ModelResult(MaxLen, NumQuantities)[1]
    /\ dataset.variables[<<"glider_flight", "time">>].data = CalibrationTime(MaxLen)

====
